---- MODULE Spec2Model ----
(***************************************************************************)
(* WorkoutNotification: a daily workout mailer.                            *)
(*                                                                         *)
(* Two source files are modelled:                                          *)
(*   daily_workout.py        the one-shot pipeline (main)                  *)
(*   workOutNotification.py  module-level start-up, the script entry point *)
(*                           (__main__ -> send_email) and the scheduler    *)
(*                           loop (main -> schedule -> send_daily_workout) *)
(*                                                                         *)
(* workOutNotification.py does not run as it stands: load_dotenv, json,     *)
(* schedule and time are used but not imported, and get_today_workout      *)
(* reads datetime.datetime where `datetime` is the class.  Both outcomes   *)
(* are kept: free_names and dt_module say whether those lookups succeed;   *)
(* when they do not, the process ends there with a traceback.              *)
(*                                                                         *)
(* Python values: a dict is a record with a field `keys` (the keys that    *)
(* are present) and one field per recognised key; d.get(k, default) is     *)
(* Get(d, k, default).  A string built by an f-string is the sequence of   *)
(* its literal pieces and interpolated values.                             *)
(***************************************************************************)
EXTENDS Integers, Sequences, FiniteSets, TLC

(* ------------------------------ bounds -------------------------------- *)

\* Longest days list of a workout document.
MaxDays == 2
\* Most exercises of a day-entry handed to the renderer (SpecRender).
MaxExercises == 2
\* Polls of the scheduler loop per calendar day (the source polls once a
\* minute; the day is scaled down to this many polls).
TicksPerDay == 3
\* Last clock tick at which the scheduler loop is still followed.
MaxTick == 6
\* Longest time, in ticks, one synchronous send may take.
MaxSendTicks == 3

(* ------------------------- program constants -------------------------- *)

\* datetime.weekday(): Monday = 0 ... Sunday = 6.
NumWeekdays == 7
\* schedule.every().day.at("06:00"): the tick of the day that stands for 06:00.
AtTick == 1

Weekdays == 0..(NumWeekdays - 1)

ConfigNames == {"SMTP_SERVER", "SMTP_PORT", "EMAIL_ADDRESS", "EMAIL_PASSWORD", "RECIPIENT_EMAIL"}

(* ------------------------------ dicts --------------------------------- *)

\* dict.get(key, default)
Get(d, k, default) == IF k \in d.keys THEN d[k] ELSE default

\* Truthiness of a dict: an empty dict is falsy.
Truthy(d) == d.keys # {}

MkExercise(ks, n, s, r, u) ==
    [keys |-> ks,
     name |-> IF "name" \in ks THEN n ELSE "",
     sets |-> IF "sets" \in ks THEN s ELSE "",
     rest |-> IF "rest" \in ks THEN r ELSE "",
     url  |-> IF "url" \in ks THEN u ELSE ""]

MkDay(ks, t, exs) ==
    [keys |-> ks,
     title |-> IF "title" \in ks THEN t ELSE "",
     exercises |-> IF "exercises" \in ks THEN exs ELSE <<>>]

\* The {} that get_today_workout of workOutNotification.py returns.
EmptyDict == MkDay({}, "", <<>>)

(* --------------------------- HTML renderer ---------------------------- *)

\* The literal pieces of the templates that precede an interpolated value.
TitleMark == "<div class=\"day-title\">"
SetsMark == "<p>Sets/Reps: "
RestMark == "<p>Rest: "

\* exercise_fragment with a visible placeholder for a missing rest.
exercise_fragment_rest_placeholder(ex) ==
    LET name == Get(ex, "name", "Unknown Exercise")
        sets == Get(ex, "sets", "")
        rest == Get(ex, "rest", "N/A")
        url  == Get(ex, "url", "")
        exercise_name == IF url # ""
                         THEN <<"<a href=\"", url, "\" target=\"_blank\">", name, "</a>">>
                         ELSE <<name>>
    IN  <<"<div class=\"exercise\"><p><strong>">> \o exercise_name
        \o <<"</strong></p>", "<p>Sets/Reps: ", sets, "</p>", "<p>Rest: ", rest, "</p></div>">>

\* daily_workout.py, the body of the loop over exercises: one fragment.
\* A url that is absent or empty gives the plain name.
exercise_fragment(ex) ==
    LET name == Get(ex, "name", "Unknown Exercise")
        sets == Get(ex, "sets", "")
        rest == Get(ex, "rest", "")
        url  == Get(ex, "url", "")
        exercise_name == IF url # ""
                         THEN <<"<a href=\"", url, "\" target=\"_blank\">", name, "</a>">>
                         ELSE <<name>>
    IN  <<"<div class=\"exercise\"><p><strong>">> \o exercise_name
        \o <<"</strong></p>", SetsMark, sets, "</p>", RestMark, rest, "</p></div>">>

\* workOutNotification.py, the body of the loop over exercises.  The default
\* of url is None, which like "" is falsy and is rendered nowhere.
exercise_fragment_sched(ex) ==
    LET name == Get(ex, "name", "")
        sets == Get(ex, "sets", "")
        rest == Get(ex, "rest", "")
        url  == Get(ex, "url", "")
    IN  IF url # ""
        THEN <<"<div class=\"exercise\"><p><strong>", "<a href=\"", url,
               "\" target=\"_blank\">", name, "</a>", "</strong></p>",
               SetsMark, sets, "</p>", RestMark, rest, "</p></div>">>
        ELSE <<"<div class=\"exercise\"><p><strong>", name, "</strong></p>",
               SetsMark, sets, "</p>", RestMark, rest, "</p></div>">>

RECURSIVE html_exercises(_)
html_exercises(exs) ==
    IF exs = <<>> THEN <<>> ELSE exercise_fragment(Head(exs)) \o html_exercises(Tail(exs))

RECURSIVE html_exercises_sched(_)
html_exercises_sched(exs) ==
    IF exs = <<>> THEN <<>>
    ELSE exercise_fragment_sched(Head(exs)) \o html_exercises_sched(Tail(exs))

\* daily_workout.py build_workout_html
build_workout_html(day_info) ==
    LET title == Get(day_info, "title", "Workout")
        exercises == Get(day_info, "exercises", <<>>)
    IN  <<"<html><head><style>one-shot</style></head><body>", TitleMark, title, "</div>">>
        \o html_exercises(exercises)
        \o <<"<p><em>Tip:</em> Always warm up properly, focus on form, and stay hydrated!</p></body></html>">>

\* workOutNotification.py build_workout_html
build_workout_html_sched(day_info) ==
    LET title == Get(day_info, "title", "Workout")
        exercises == Get(day_info, "exercises", <<>>)
    IN  <<"<html><head><style>scheduler</style></head><body>", TitleMark, title, "</div>">>
        \o html_exercises_sched(exercises)
        \o <<"<p><em>Tip:</em> Stay hydrated and track your progress. Enjoy your workout!</p></body></html>">>

\* The interpolated values that follow each occurrence of a template piece.
RECURSIVE ValuesAfter(_, _)
ValuesAfter(html, mark) ==
    IF Len(html) < 2 THEN <<>>
    ELSE IF Head(html) = mark
         THEN <<html[2]>> \o ValuesAfter(Tail(Tail(html)), mark)
         ELSE ValuesAfter(Tail(html), mark)

(* --------------------------- configuration ---------------------------- *)

\* SMTP_PORT texts: empty (or unset: os.getenv gives None, falsy like ""),
\* one that int() parses and one that it does not.
PortTexts == {"", "587", "abc"}
IsInt(text) == text = "587"

\* The other four values: unset/empty, or set.
Configs ==
    {c \in [ConfigNames -> {"", "set", "587", "abc"}] :
        /\ c["SMTP_PORT"] \in PortTexts
        /\ \A n \in ConfigNames \ {"SMTP_PORT"} : c[n] \in {"", "set"}}

FullConfig == [n \in ConfigNames |-> IF n = "SMTP_PORT" THEN "587" ELSE "set"]
ClearedConfig == [n \in ConfigNames |-> ""]

\* Missing that leaves EMAIL_PASSWORD out of the check.
Missing_without_password(c) == {n \in ConfigNames \ {"EMAIL_PASSWORD"} : c[n] = ""}

\* The names whose value is falsy (`not var_value`, `not all([...])`).
Missing(c) == {n \in ConfigNames : c[n] = ""}

(* ----------------------------- documents ------------------------------ *)

LegDay == MkDay({"title", "exercises"}, "Leg Day",
                <<MkExercise({"name", "sets", "rest", "url"}, "Squat", "5x5", "90s",
                             "http://example.com/squat")>>)
CoreDay == MkDay({"exercises"}, "", <<MkExercise({"name"}, "Plank", "", "", "")>>)
Entries == {LegDay, CoreDay}

DaySeqs == UNION {[1..n -> Entries] : n \in 0..MaxDays}

\* workouts.json on disk: absent, not JSON, JSON that is no mapping (a list,
\* which has no .get), a mapping without "days", or a mapping with a days list.
Files ==
    {[kind |-> "missing", days |-> <<>>], [kind |-> "malformed", days |-> <<>>],
     [kind |-> "nomapping", days |-> <<>>], [kind |-> "nokey", days |-> <<>>]}
    \cup {[kind |-> "ok", days |-> s] : s \in DaySeqs}

\* workout_data.get("days", []) of a document that parsed.
DaysOf(f) == IF f.kind = "ok" THEN f.days ELSE <<>>

(* --------------------------- day selectors ---------------------------- *)

\* daily_workout.py get_today_workout, given the weekday index read from
\* the clock: the entry, or exit(1).
get_today_workout(days, today_index) ==
    IF today_index < Len(days)
    THEN [exits |-> FALSE, value |-> days[today_index + 1]]
    ELSE [exits |-> TRUE, value |-> EmptyDict]

\* workOutNotification.py get_today_workout, lines 176-181, given the
\* weekday index.
get_today_workout_sched(days, today_index) ==
    IF today_index < Len(days)
    THEN days[today_index + 1]
    ELSE IF days # <<>> THEN days[1] ELSE EmptyDict

(* ---------------------------- mail session ---------------------------- *)

Steps == <<"connect", "starttls", "login", "sendmail">>
StepSet == {Steps[i] : i \in 1..Len(Steps)}

\* What the relay does to one session: nothing wrong, or the step that fails
\* and the class of the exception smtplib raises there (an SMTPException, or
\* for the connect also an OSError such as a refused connection).
NoFault == [step |-> "none", exc |-> "none"]
Faults ==
    {NoFault, [step |-> "connect", exc |-> "OSError"]}
    \cup [step : StepSet, exc : {"SMTPException"}]

\* An except clause for `handler` catches `exc`.
Catches(handler, exc) == handler = exc \/ handler = "Exception"

\* smtp_session that connects a second time after a failed session.
smtp_session_retry(port_text, fault, handlers) ==
    LET raised == IF ~(port_text = "587") THEN "ValueError" ELSE fault.exc
        caught == \E h \in handlers : h = raised \/ h = "Exception"
    IN  [attempts  |-> IF ~(port_text = "587") THEN 0 ELSE IF raised = "none" THEN 1 ELSE 2,
         submitted |-> IF raised = "none" THEN 1 ELSE 0,
         step      |-> IF ~(port_text = "587") THEN "int" ELSE fault.step,
         raised    |-> raised,
         escaped   |-> raised # "none" /\ ~caught,
         logged    |-> IF raised = "none" THEN "INFO"
                       ELSE IF caught THEN "ERROR" ELSE "none"]

\* One try block around `with smtplib.SMTP(server, int(port)) ...`: int()
\* runs first and raises ValueError before any connection; then connect,
\* starttls, login, sendmail.  `handlers` are the except clauses.
smtp_session(port_text, fault, handlers) ==
    LET raised == IF ~IsInt(port_text) THEN "ValueError" ELSE fault.exc
        caught == \E h \in handlers : Catches(h, raised)
    IN  [attempts  |-> IF IsInt(port_text) THEN 1 ELSE 0,
         submitted |-> IF raised = "none" THEN 1 ELSE 0,
         step      |-> IF ~IsInt(port_text) THEN "int" ELSE fault.step,
         raised    |-> raised,
         escaped   |-> raised # "none" /\ ~caught,
         logged    |-> IF raised = "none" THEN "INFO"
                       ELSE IF caught THEN "ERROR" ELSE "none"]

\* daily_workout.py send_email
send_email(port_text, fault) == smtp_session(port_text, fault, {"SMTPException", "Exception"})

\* send_daily_workout_session without the `except Exception` clause.
send_daily_workout_session_smtp_only(fault) == smtp_session("587", fault, {"SMTPException"})

\* workOutNotification.py send_daily_workout, its try block (SMTP_PORT is
\* the int parsed at module level).
send_daily_workout_session(fault) == smtp_session("587", fault, {"SMTPException", "Exception"})

\* workOutNotification.py send_email
send_email_script(port_text, fault) == smtp_session(port_text, fault, {"Exception"})

\* A pipeline run that has not reached the mail session.
NoRun == [attempts |-> 0, submitted |-> 0, step |-> "none", raised |-> "none",
          escaped |-> FALSE, logged |-> "none"]

(* ------------------------------ schedule ------------------------------ *)

DayOf(t) == t \div TicksPerDay
TimeOf(t) == t % TicksPerDay

\* next_run_after that always answers today's at-time, also when it is past.
next_run_today(now) == (now \div TicksPerDay) * TicksPerDay + AtTick

\* schedule.every().day.at("06:00"): the next run is the first 06:00
\* strictly after `now` (today's if the at-time is still ahead, else
\* tomorrow's).
next_run_after(now) ==
    IF AtTick > TimeOf(now)
    THEN DayOf(now) * TicksPerDay + AtTick
    ELSE (DayOf(now) + 1) * TicksPerDay + AtTick

(* ------------------------------- state -------------------------------- *)

VARIABLES
    variant,        \* the entry point that runs: "oneshot" (daily_workout.py as a
                    \* script), "script" (workOutNotification.py as a script),
                    \* "scheduler" (workOutNotification.py loaded, then main())
    free_names,     \* whether load_dotenv, json, schedule and time resolve:
                    \* workOutNotification.py uses them and imports none of them
                    \* (its lines 1-10 are comments), so on a plain interpreter
                    \* the first use raises NameError
    weekday0,       \* the weekday index of calendar day 0 of the local clock
    dt_module,      \* whether the global `datetime` of workOutNotification.py
                    \* names the module when main() runs: line 17 binds the
                    \* class, on which datetime.datetime raises AttributeError
    provided,       \* the configuration the deployment provides: the process
                    \* environment (daily_workout.py) or the .env file
    environ,        \* os.environ
    file,           \* workouts.json on disk
    pc,             \* position of the process
    status,         \* "running", "exit0", "exit1"
    log,            \* the last record written to the log (level:message), or the
                    \* traceback of an uncaught exception
    days_list,      \* the loaded days list
    today_index,    \* the weekday index last read from the clock
    selector,       \* last call of get_today_workout: "none", "returned", "exited"
    workout,        \* the entry the selector returned
    msg,            \* the message built: subject and HTML body
    run,            \* the mail session of the current pipeline run
    mail_sessions,  \* connections to the relay attempted by the process
    clock,          \* local time, in ticks (scheduler)
    next_run,       \* the scheduled job's next run (scheduler)
    fires,          \* firings of the scheduled job so far
    fire_day,       \* calendar day of the last firing, -1 before the first
    fires_on_day    \* firings on calendar day fire_day

vars == <<variant, free_names, dt_module, weekday0, provided, environ, file, pc, status, log,
          days_list, today_index, selector, workout, msg, run, mail_sessions,
          clock, next_run, fires, fire_day, fires_on_day>>

NoMsg == [subject |-> "", body |-> <<>>]

\* What every entry point starts from.
Fresh ==
    /\ status = "running"
    /\ log = ""
    /\ days_list = <<>>
    /\ today_index = 0
    /\ selector = "none"
    /\ workout = EmptyDict
    /\ msg = NoMsg
    /\ run = NoRun
    /\ mail_sessions = 0
    /\ next_run = 0
    /\ fires = 0
    /\ fire_day = -1
    /\ fires_on_day = 0

Init ==
    /\ variant \in {"oneshot", "script", "scheduler"}
    /\ free_names \in (IF variant = "oneshot" THEN {TRUE} ELSE BOOLEAN)
    /\ dt_module \in (IF variant = "scheduler" THEN BOOLEAN ELSE {FALSE})
    /\ weekday0 \in (IF variant = "scheduler" THEN Weekdays ELSE {0})
    /\ provided \in Configs
    /\ environ = (IF variant = "oneshot" THEN provided ELSE FullConfig)
    /\ file \in Files
    /\ clock \in (IF variant = "scheduler" THEN 0..(TicksPerDay - 1) ELSE {0})
    /\ pc = (IF variant = "oneshot" THEN "load" ELSE "m_dotenv")
    /\ Fresh

\* exit(1), or an uncaught exception: the process ends with status 1.
Die(record) ==
    /\ pc' = "exited"
    /\ status' = "exit1"
    /\ log' = record

(* ------------------------- daily_workout.py --------------------------- *)

load_workouts ==
    /\ variant = "oneshot" /\ pc = "load"
    /\ CASE file.kind = "missing" -> Die("ERROR:JSON file not found") /\ UNCHANGED days_list
         [] file.kind = "malformed" -> Die("ERROR:Error decoding JSON") /\ UNCHANGED days_list
         [] file.kind = "nomapping" -> Die("TRACEBACK:AttributeError") /\ UNCHANGED days_list
         [] DaysOf(file) = <<>> ->
                Die("ERROR:No workouts found in the JSON file.") /\ UNCHANGED days_list
         [] OTHER ->
                /\ days_list' = DaysOf(file)
                /\ log' = "INFO:Loaded days of workouts"
                /\ pc' = "select"
                /\ UNCHANGED status
    /\ UNCHANGED <<variant, free_names, dt_module, weekday0, provided, environ, file, today_index,
                   selector, workout, msg, run, mail_sessions, clock, next_run, fires,
                   fire_day, fires_on_day>>

select_today ==
    /\ variant = "oneshot" /\ pc = "select"
    /\ \E i \in Weekdays :
         LET r == get_today_workout(days_list, i)
         IN  /\ today_index' = i
             /\ IF r.exits
                THEN /\ Die("ERROR:Today's workout index is out of range.")
                     /\ selector' = "exited"
                     /\ UNCHANGED workout
                ELSE /\ workout' = r.value
                     /\ selector' = "returned"
                     /\ pc' = "render"
                     /\ UNCHANGED <<status, log>>
    /\ UNCHANGED <<variant, free_names, dt_module, weekday0, provided, environ, file, days_list,
                   msg, run, mail_sessions, clock, next_run, fires, fire_day, fires_on_day>>

render_today ==
    /\ variant = "oneshot" /\ pc = "render"
    /\ msg' = [subject |-> Get(workout, "title", "Your Workout"),
               body |-> build_workout_html(workout)]
    /\ pc' = "env"
    /\ UNCHANGED <<variant, free_names, dt_module, weekday0, provided, environ, file, status, log,
                   days_list, today_index, selector, workout, run, mail_sessions, clock,
                   next_run, fires, fire_day, fires_on_day>>

check_env ==
    /\ variant = "oneshot" /\ pc = "env"
    /\ IF Missing(environ) # {}
       THEN Die("ERROR:One or more environment variables are missing.")
       ELSE pc' = "send" /\ UNCHANGED <<status, log>>
    /\ UNCHANGED <<variant, free_names, dt_module, weekday0, provided, environ, file, days_list,
                   today_index, selector, workout, msg, run, mail_sessions, clock,
                   next_run, fires, fire_day, fires_on_day>>

\* The log record of a finished session.
SessionRecord(r, sent, smtp_error, other_error) ==
    IF r.raised = "none" THEN sent
    ELSE IF r.escaped THEN "TRACEBACK:" \o r.raised
    ELSE IF r.raised = "SMTPException" THEN smtp_error ELSE other_error

send_and_exit ==
    /\ variant = "oneshot" /\ pc = "send"
    /\ \E fault \in Faults :
         LET r == send_email(environ["SMTP_PORT"], fault)
         IN  /\ run' = r
             /\ mail_sessions' = mail_sessions + r.attempts
             /\ log' = SessionRecord(r, "INFO:Email sent successfully",
                                     "ERROR:SMTP error when sending email",
                                     "ERROR:Unexpected error when sending email")
             /\ pc' = IF r.escaped THEN "exited" ELSE "done"
             /\ status' = IF r.escaped THEN "exit1" ELSE "exit0"
    /\ UNCHANGED <<variant, free_names, dt_module, weekday0, provided, environ, file, days_list,
                   today_index, selector, workout, msg, clock, next_run, fires, fire_day,
                   fires_on_day>>

(* ---------------------- workOutNotification.py ------------------------ *)

IsWon == variant \in {"script", "scheduler"}

\* Lines 42-43: os.environ.clear(), then load_dotenv(), which is an unbound
\* name unless the interpreter provides it.
load_environment ==
    /\ IsWon /\ pc = "m_dotenv"
    /\ IF free_names
       THEN /\ environ' = provided
            /\ pc' = "m_env"
            /\ log' = "INFO:Daily Workout Scheduler script started."
            /\ UNCHANGED status
       ELSE /\ environ' = ClearedConfig
            /\ pc' = "exited"
            /\ status' = "exit1"
            /\ log' = "TRACEBACK:NameError"
    /\ UNCHANGED <<variant, free_names, dt_module, weekday0, provided, file, days_list, today_index,
                   selector, workout, msg, run, mail_sessions, clock, next_run, fires,
                   fire_day, fires_on_day>>

\* Lines 45-64.
check_environment ==
    /\ IsWon /\ pc = "m_env"
    /\ IF Missing(environ) # {}
       THEN Die("ERROR:Missing environment variables")
       ELSE pc' = "m_port" /\ UNCHANGED <<status, log>>
    /\ UNCHANGED <<variant, free_names, dt_module, weekday0, provided, environ, file, days_list,
                   today_index, selector, workout, msg, run, mail_sessions, clock,
                   next_run, fires, fire_day, fires_on_day>>

\* Lines 66-70.
parse_port ==
    /\ IsWon /\ pc = "m_port"
    /\ IF ~IsInt(environ["SMTP_PORT"])
       THEN Die("ERROR:Invalid SMTP_PORT value")
       ELSE pc' = "m_json" /\ UNCHANGED <<status, log>>
    /\ UNCHANGED <<variant, free_names, dt_module, weekday0, provided, environ, file, days_list,
                   today_index, selector, workout, msg, run, mail_sessions, clock,
                   next_run, fires, fire_day, fires_on_day>>

\* Lines 76-91: the document is read once, here, into the global days_list;
\* an empty or absent days list is a warning and the module goes on.
load_document ==
    /\ IsWon /\ pc = "m_json"
    /\ CASE file.kind = "missing" -> Die("ERROR:JSON file not found") /\ UNCHANGED days_list
         [] file.kind = "malformed" -> Die("ERROR:Error decoding JSON") /\ UNCHANGED days_list
         [] file.kind = "nomapping" -> Die("TRACEBACK:AttributeError") /\ UNCHANGED days_list
         [] OTHER ->
                /\ days_list' = DaysOf(file)
                /\ log' = IF DaysOf(file) = <<>>
                          THEN "WARNING:No workouts found in the JSON file."
                          ELSE log
                /\ pc' = IF variant = "script" THEN "s_entry" ELSE "w_main"
                /\ UNCHANGED status
    /\ UNCHANGED <<variant, free_names, dt_module, weekday0, provided, environ, file, today_index,
                   selector, workout, msg, run, mail_sessions, clock, next_run, fires,
                   fire_day, fires_on_day>>

\* Lines 259-265 and 233-256: the script entry point logs the Eastern time
\* and calls send_email(), which mails a fixed plain-text body; then the
\* script ends.
script_entry ==
    /\ variant = "script" /\ pc = "s_entry"
    /\ \E fault \in Faults :
         LET r == send_email_script(environ["SMTP_PORT"], fault)
         IN  /\ run' = r
             /\ mail_sessions' = mail_sessions + r.attempts
             /\ msg' = [subject |-> "Daily Workout",
                        body |-> <<"Here is your workout for the day!">>]
             /\ log' = SessionRecord(r, "INFO:Email sent to",
                                     "ERROR:Error sending email",
                                     "ERROR:Error sending email")
             /\ pc' = IF r.escaped THEN "exited" ELSE "done"
             /\ status' = IF r.escaped THEN "exit1" ELSE "exit0"
    /\ UNCHANGED <<variant, free_names, dt_module, weekday0, provided, environ, file, days_list,
                   today_index, selector, workout, clock, next_run, fires, fire_day,
                   fires_on_day>>

\* Lines 221-225: main() schedules the job and enters the loop.
main ==
    /\ variant = "scheduler" /\ pc = "w_main"
    /\ next_run' = next_run_after(clock)
    /\ log' = "INFO:Scheduling daily workout at 06:00. Now entering loop..."
    /\ pc' = "poll"
    /\ UNCHANGED <<variant, free_names, dt_module, weekday0, provided, environ, file, status,
                   days_list, today_index, selector, workout, msg, run, mail_sessions,
                   clock, fires, fire_day, fires_on_day>>

\* Line 227, schedule.run_pending() with the job not due.
run_pending_idle ==
    /\ variant = "scheduler" /\ pc = "poll"
    /\ clock < next_run
    /\ pc' = "sleep"
    /\ UNCHANGED <<variant, free_names, dt_module, weekday0, provided, environ, file, status, log,
                   days_list, today_index, selector, workout, msg, run, mail_sessions,
                   clock, next_run, fires, fire_day, fires_on_day>>

\* datetime.now().weekday() at local time t.
WeekdayAt(t) == (weekday0 + DayOf(t)) % NumWeekdays

\* The firing is counted against its calendar day.
CountFiring ==
    /\ fires' = fires + 1
    /\ fire_day' = DayOf(clock)
    /\ fires_on_day' = IF fire_day = DayOf(clock) THEN fires_on_day + 1 ELSE 1

\* Line 227, schedule.run_pending() with the job due: send_daily_workout()
\* runs synchronously (lines 188-214), taking d ticks, and the job is then
\* scheduled again from the time it finished.
run_pending_fire ==
    /\ variant = "scheduler" /\ pc = "poll"
    /\ clock >= next_run
    /\ CountFiring
    /\ IF ~dt_module
       THEN \* get_today_workout: datetime.datetime raises AttributeError,
            \* outside any try block: it ends the loop and the process.
            /\ Die("TRACEBACK:AttributeError")
            /\ run' = NoRun
            /\ UNCHANGED <<today_index, selector, workout, msg, mail_sessions, clock, next_run>>
       ELSE \E d \in 0..MaxSendTicks, fault \in Faults :
              LET i == WeekdayAt(clock)
                  w == get_today_workout_sched(days_list, i)
                  r == IF Truthy(w) THEN send_daily_workout_session(fault) ELSE NoRun
              IN  /\ today_index' = i
                  /\ selector' = "returned"
                  /\ workout' = w
                  /\ run' = r
                  /\ mail_sessions' = mail_sessions + r.attempts
                  /\ msg' = IF Truthy(w)
                            THEN [subject |-> Get(w, "title", "Your Workout"),
                                  body |-> build_workout_html_sched(w)]
                            ELSE msg
                  /\ log' = IF Truthy(w)
                            THEN SessionRecord(r, "INFO:Workout email sent successfully",
                                               "ERROR:SMTP error when sending email",
                                               "ERROR:Unexpected error")
                            ELSE "WARNING:No workout info for today."
                  /\ clock' = clock + d
                  /\ IF r.escaped
                     THEN pc' = "exited" /\ status' = "exit1" /\ UNCHANGED next_run
                     ELSE /\ pc' = "sleep"
                          /\ next_run' = next_run_after(clock + d)
                          /\ UNCHANGED status
    /\ UNCHANGED <<variant, free_names, dt_module, weekday0, provided, environ, file, days_list>>

\* Line 228: time.sleep(60).
sleep ==
    /\ variant = "scheduler" /\ pc = "sleep"
    /\ clock < MaxTick
    /\ clock' = clock + 1
    /\ pc' = "poll"
    /\ UNCHANGED <<variant, free_names, dt_module, weekday0, provided, environ, file, status, log,
                   days_list, today_index, selector, workout, msg, run, mail_sessions,
                   next_run, fires, fire_day, fires_on_day>>

\* While the process sleeps, workouts.json may be replaced on disk by another
\* document that parses.
edit_document ==
    /\ variant = "scheduler" /\ pc = "sleep"
    /\ \E f \in Files : f.kind = "ok" /\ f # file /\ file' = f
    /\ UNCHANGED <<variant, free_names, dt_module, weekday0, provided, environ, pc, status, log,
                   days_list, today_index, selector, workout, msg, run, mail_sessions,
                   clock, next_run, fires, fire_day, fires_on_day>>

Next ==
    \/ load_workouts \/ select_today \/ render_today \/ check_env \/ send_and_exit
    \/ load_environment \/ check_environment \/ parse_port \/ load_document
    \/ script_entry \/ main \/ run_pending_idle \/ run_pending_fire \/ sleep
    \/ edit_document

Spec == Init /\ [][Next]_vars

(* -------------------- the renderers, called alone ---------------------- *)

ExerciseKeys == {"name", "sets", "rest", "url"}

\* Exercises with every subset of their fields present.
RenderExercises ==
    {MkExercise(ks, "Squat", "5x5", "90s", "http://example.com/squat") :
        ks \in SUBSET ExerciseKeys}

\* Day-entries with or without a title, with or without exercises.
RenderDays ==
    {MkDay(ks, "Leg Day", exs) :
        ks \in SUBSET {"title", "exercises"},
        exs \in UNION {[1..n -> RenderExercises] : n \in 0..MaxExercises}}

InitRender ==
    /\ variant = "render"
    /\ free_names = TRUE
    /\ dt_module = FALSE
    /\ weekday0 = 0
    /\ provided = FullConfig
    /\ environ = FullConfig
    /\ file = [kind |-> "missing", days |-> <<>>]
    /\ clock = 0
    /\ pc = "call"
    /\ status = "running"
    /\ log = ""
    /\ days_list = <<>>
    /\ today_index = 0
    /\ selector = "none"
    /\ workout \in RenderDays
    /\ msg = NoMsg
    /\ run = NoRun
    /\ mail_sessions = 0
    /\ next_run = 0
    /\ fires = 0
    /\ fire_day = -1
    /\ fires_on_day = 0

\* build_workout_html(day_info) of daily_workout.py returns.
call_build_workout_html ==
    /\ variant = "render" /\ pc = "call"
    /\ msg' = [subject |-> "", body |-> build_workout_html(workout)]
    /\ pc' = "returned"
    /\ UNCHANGED <<variant, free_names, dt_module, weekday0, provided, environ, file, status, log,
                   days_list, today_index, selector, workout, run, mail_sessions, clock,
                   next_run, fires, fire_day, fires_on_day>>

\* build_workout_html(day_info) of workOutNotification.py returns.
call_build_workout_html_sched ==
    /\ variant = "render" /\ pc = "call"
    /\ msg' = [subject |-> "", body |-> build_workout_html_sched(workout)]
    /\ pc' = "returned_sched"
    /\ UNCHANGED <<variant, free_names, dt_module, weekday0, provided, environ, file, status, log,
                   days_list, today_index, selector, workout, run, mail_sessions, clock,
                   next_run, fires, fire_day, fires_on_day>>

NextRender == call_build_workout_html \/ call_build_workout_html_sched

SpecRender == InitRender /\ [][NextRender]_vars

Rendered == variant = "render" /\ pc \in {"returned", "returned_sched"}

\* The exercises the renderer loops over.
ExercisesOf(day_info) == Get(day_info, "exercises", <<>>)

\* In the rendered body, the places of sets and rest of every exercise that
\* lacks them hold the empty string.
MissingSetsRestEmpty ==
    /\ Len(ValuesAfter(msg.body, SetsMark)) = Len(ExercisesOf(workout))
    /\ Len(ValuesAfter(msg.body, RestMark)) = Len(ExercisesOf(workout))
    /\ \A k \in 1..Len(ExercisesOf(workout)) :
         /\ "sets" \notin ExercisesOf(workout)[k].keys
              => ValuesAfter(msg.body, SetsMark)[k] = ""
         /\ "rest" \notin ExercisesOf(workout)[k].keys
              => ValuesAfter(msg.body, RestMark)[k] = ""

\* C10 as stated: the place of every missing optional field (title, sets,
\* rest) holds the empty string.
C10_Original ==
    Rendered =>
        /\ MissingSetsRestEmpty
        /\ "title" \notin workout.keys => ValuesAfter(msg.body, TitleMark) = <<"">>

\* C10 amended: both renderers return for every day-entry; the places of a
\* missing sets and a missing rest hold the empty string, and the place of a
\* missing title holds the placeholder "Workout".
C10_MissingFields ==
    Rendered =>
        /\ MissingSetsRestEmpty
        /\ "title" \notin workout.keys => ValuesAfter(msg.body, TitleMark) = <<"Workout">>
        /\ "title" \in workout.keys => ValuesAfter(msg.body, TitleMark) = <<workout.title>>

\* A day-entry without title whose second exercise lacks sets and rest has
\* been rendered by the scheduler's renderer.
C10_Witness ==
    /\ variant = "render" /\ pc = "returned_sched"
    /\ "title" \notin workout.keys
    /\ Len(ExercisesOf(workout)) = 2
    /\ ExercisesOf(workout)[2].keys = {"name"}
    /\ ExercisesOf(workout)[1].keys = ExerciseKeys

(* ------------------------------ claims -------------------------------- *)

Terminated == pc \in {"done", "exited"}

\* C1: for every non-empty days list and weekday index i the selector
\* returns days[i mod len(days)]; it neither exits nor falls back to another
\* index when i >= len(days).
C1_Original ==
    (selector \in {"returned", "exited"} /\ days_list # <<>>) =>
        /\ selector = "returned"
        /\ workout = days_list[(today_index % Len(days_list)) + 1]

\* C2: with an empty or missing days list the process ends with a non-zero
\* status and opens no mail session; it does not go on with zero entries.
C2_Original ==
    /\ (variant = "oneshot" /\ pc # "load" /\ file.kind \in {"ok", "nokey"}
            /\ DaysOf(file) = <<>>)
         => (pc = "exited" /\ status = "exit1" /\ mail_sessions = 0)
    /\ (IsWon /\ pc \notin {"m_dotenv", "m_env", "m_port", "m_json"} /\ days_list = <<>>)
         => /\ mail_sessions = 0
            /\ pc \notin {"poll", "sleep"}
            /\ Terminated => status = "exit1"

\* C3: with all five values present and SMTP_PORT not an integer, no
\* connection is attempted and the process ends with an error logged and a
\* non-zero status.
C3_Original ==
    ((\A n \in ConfigNames : provided[n] # "") /\ ~IsInt(provided["SMTP_PORT"])) =>
        /\ mail_sessions = 0
        /\ pc # "done"
        /\ Terminated => status = "exit1"

\* C4: when any of the five configuration values is absent or empty, no
\* mail session is opened, the process never gets past its configuration
\* check, and when it has ended its status is non-zero.
C4_MissingConfigFatal ==
    (\E n \in ConfigNames : provided[n] = "") =>
        /\ mail_sessions = 0
        /\ run = NoRun
        /\ pc \notin {"send", "done", "m_port", "m_json", "s_entry", "w_main", "poll", "sleep"}
        /\ Terminated => status = "exit1"

\* The script entry point of workOutNotification.py has stopped at the
\* configuration check because only EMAIL_PASSWORD is missing.
C4_Witness ==
    /\ variant = "script"
    /\ {n \in ConfigNames : provided[n] = ""} = {"EMAIL_PASSWORD"}
    /\ pc = "exited"
    /\ log = "ERROR:Missing environment variables"

\* C5: a transport failure at any step of the mail session is caught and
\* logged as an error and does not escape the dispatcher; the one-shot and
\* script processes then end normally, and the scheduler loop stays running.
C5_TransportFailureContained ==
    run.step \in StepSet =>
        /\ ~run.escaped
        /\ run.logged = "ERROR"
        /\ log \in {"ERROR:SMTP error when sending email",
                    "ERROR:Unexpected error when sending email",
                    "ERROR:Unexpected error", "ERROR:Error sending email"}
        /\ variant \in {"oneshot", "script"} => (pc = "done" /\ status = "exit0")
        /\ variant = "scheduler" => (pc \in {"sleep", "poll"} /\ status = "running")

\* After a login failure in a firing, the scheduler loop has reached its
\* next poll.
C5_Witness ==
    /\ variant = "scheduler"
    /\ run.step = "login"
    /\ pc = "poll"
    /\ status = "running"

\* C6: a pipeline run opens at most one mail session and submits at most
\* one message, exactly one when nothing failed and none otherwise; a
\* process opens at most one session per pipeline run.
C6_OneSessionPerRun ==
    /\ run.attempts \in {0, 1}
    /\ run.submitted = (IF run.attempts = 1 /\ run.raised = "none" THEN 1 ELSE 0)
    /\ variant \in {"oneshot", "script"} => mail_sessions <= 1
    /\ variant = "scheduler" => mail_sessions <= fires

\* The one-shot process has ended after a session whose sendmail failed:
\* one session, no message, no second attempt.
C6_Witness ==
    /\ variant = "oneshot"
    /\ pc = "done"
    /\ run.step = "sendmail"
    /\ mail_sessions = 1
    /\ run.submitted = 0

C8_Original ==
    [][(fires' > fires /\ run'.attempts = 1)
         => workout' = get_today_workout_sched(DaysOf(file), today_index')]_vars

\* C9: workOutNotification.py run as a script, once its names resolve and
\* its configuration and document have loaded, enters the scheduler loop and
\* never terminates by itself.
C9_Original ==
    (variant = "script" /\ free_names /\ pc \notin {"m_dotenv", "m_env", "m_port", "m_json"}
        /\ Missing(provided) = {} /\ IsInt(provided["SMTP_PORT"])
        /\ file.kind = "ok" /\ DaysOf(file) # <<>>)
      => (pc \in {"s_entry", "poll", "sleep"} /\ status = "running")

====
